---- MODULE Spec2Model ----
(***************************************************************************)
(* Chat-bot web client: the axios API client with its 401 refresh          *)
(* interceptor (api.ts), and the chat page (pages/Chat.tsx) whose handlers *)
(* issue their requests through that client.                               *)
(*                                                                         *)
(* One step of the model is one task of the browser's event loop: a user   *)
(* event or the arrival of one HTTP response, together with every promise  *)
(* continuation (microtask) and React state update that follows it up to   *)
(* the next network await.                                                 *)
(***************************************************************************)
EXTENDS Integers, Sequences, FiniteSets, TLC

(***************************************************************************)
(* Bounds                                                                  *)
(***************************************************************************)
MaxCalls == 2      \* requests in flight at the same time
MaxDepth == 2      \* suspended refresh requests counted; further ones are not
MaxCount == 3      \* per-call request counters saturate here
MaxTrace == 4      \* per-call answer trace kept up to this length
MaxMsgs == 5       \* a send is modelled while the message list has room
MaxFaults == 1     \* error answers of the backend in one run of the page
MaxOps == 2        \* requests the user starts in one run of the page
MaxCreates == 1    \* sessions the backend creates on request

(***************************************************************************)
(* Values                                                                  *)
(***************************************************************************)
None == "none"
Tokens == {"t0", "t1"}                  \* opaque access tokens
RefreshTokens == {"r0"}                 \* opaque refresh tokens
ErrorStatuses == {"401", "500", "net"}  \* 401, another HTTP error, no response
Statuses == {"ok"} \cup ErrorStatuses

Min(a, b) == IF a < b THEN a ELSE b
Bump(n) == Min(n + 1, MaxCount)

\* the answers of the backend a call has seen, oldest first; an answer is
\* <<request, status, token>> (the token of a refresh response, else None),
\* and More closes a trace that got longer than MaxTrace
More == <<"more", "more", None>>
NoAnswer == <<None, None, None>>
Traced(h, e) ==
    IF Len(h) < MaxTrace THEN Append(h, e)
    ELSE IF h[Len(h)] = More THEN h ELSE Append(h, More)

VARIABLES
    access_token,     \* localStorage "access_token"
    refresh_token,    \* localStorage "refresh_token"
    authHeader,       \* api.defaults.headers.common["Authorization"] (the token)
    calls,            \* requests issued through api and not yet settled
    done,             \* the call settled by the last step, with its outcome
    view,             \* the route shown: "boot", "chat" or "login"
    sessions,         \* Chat state: the session list
    activeSessionId,  \* Chat state: the active session
    messages,         \* Chat state: the displayed messages
    input,            \* Chat state: the text of the input box
    created,          \* sessions the backend has created so far
    faults,           \* error answers the backend has given so far
    ops               \* requests the user has started so far

vars == <<access_token, refresh_token, authHeader, calls, done, view,
          sessions, activeSessionId, messages, input, created, faults, ops>>

NoDone == [kind |-> None, last |-> NoAnswer, slot |-> 0]

(***************************************************************************)
(* A call through api: the original request, and the refresh requests the  *)
(* interceptor nests on top of it.  Only the request on top is in flight.  *)
(*   top    which request is in flight: the original one or a refresh      *)
(*   retry  the _retry marker of the request in flight                     *)
(*   depth  refresh requests suspended beneath the one in flight, each     *)
(*          waiting in its interceptor for the nested refreshToken()       *)
(*   hdr    the Authorization header attached to the original request      *)
(* and, for the properties: the number of times the original request and a *)
(* refresh request were sent (nOrig, nRefresh, saturating), the answers    *)
(* received (trace, last), the parity of the requests sent (tick), and the *)
(* requests that the calls before it in the same flow of the page had sent *)
(* (sofar).                                                                *)
(***************************************************************************)
NoneSoFar == [gets |-> 0, posts |-> 0]

NewCall(kind, arg, hdr) ==
    [kind |-> kind, arg |-> arg, top |-> "orig", retry |-> FALSE, depth |-> 0,
     hdr |-> hdr, nOrig |-> 1, nRefresh |-> 0, trace |-> <<>>,
     last |-> NoAnswer, tick |-> 0, sofar |-> NoneSoFar]

RemoveAt(s, i) == SubSeq(s, 1, i - 1) \o SubSeq(s, i + 1, Len(s))

\* the outcome handed to the caller of api.get/post/delete
Outcome(c, result, status, data) ==
    [kind |-> c.kind, arg |-> c.arg, result |-> result, status |-> status,
     data |-> data, hdr |-> c.hdr, nOrig |-> c.nOrig, nRefresh |-> c.nRefresh,
     trace |-> c.trace, last |-> c.last, sofar |-> c.sofar, slot |-> 0]

(***************************************************************************)
(* The credentials: the two localStorage keys and the default header.      *)
(* The operators of the client are functions of the credentials, so that   *)
(* the continuations of one step can be chained.                           *)
(***************************************************************************)
Cred == [at |-> access_token, rt |-> refresh_token, hd |-> authHeader]

SetCred(cred) ==
    /\ access_token' = cred.at
    /\ refresh_token' = cred.rt
    /\ authHeader' = cred.hd

\* setAuthToken(token): sets the default header, or deletes it on null
setAuthToken(cred, token) == [cred EXCEPT !.hd = token]

\* (a variant that stores the token and leaves the default header alone)
StoreRefreshedNoHeader(cred, newAccessToken) ==
    [cred EXCEPT !.at = newAccessToken]

\* refreshToken, after a response that carries a token:
\* localStorage.setItem("access_token", t); setAuthToken(t)
StoreRefreshed(cred, newAccessToken) ==
    setAuthToken([cred EXCEPT !.at = newAccessToken], newAccessToken)

\* (a variant that removes access_token only)
DiscardAccessOnly(cred) == [cred EXCEPT !.at = None]

\* the interceptor's "auto logout": both keys removed from localStorage
DiscardCredentials(cred) == [cred EXCEPT !.at = None, !.rt = None]

\* (a variant that refreshes on every error of a request not yet retried)
ShouldRefreshOnAnyError(status, retry) == ~retry

\* the interceptor's condition: error.response?.status === 401 && !_retry
\* (a network error has no response)
ShouldRefresh(status, retry) == status = "401" /\ ~retry

\* refreshToken() returned null to an interceptor: that interceptor removes
\* the credentials and rejects its error; when its request is a refresh, the
\* refreshToken() beneath catches the rejection and returns null in turn,
\* down to the original request, whose 401 error reaches the caller
GiveUp(c, cred) ==
    [call |-> NoDone, cred |-> DiscardCredentials(cred),
     out |-> Outcome(c, "fail", "401", None)]

\* refreshToken() up to its await: null without a stored refresh_token,
\* else POST /user/refresh is sent, a new request of the same client
\* (c is the call with the _retry marker of the failed request already set)
StartRefresh(c, cred) ==
    IF cred.rt = None
    THEN GiveUp(c, cred)
    ELSE [call |-> [c EXCEPT !.top = "refresh", !.retry = FALSE,
                             !.depth = IF c.top = "orig" THEN 0
                                       ELSE Min(c.depth + 1, MaxDepth),
                             !.nRefresh = Bump(c.nRefresh),
                             !.tick = 1 - c.tick],
          cred |-> cred, out |-> [NoDone EXCEPT !.last = c.last]]

\* the response interceptor's error handler, for the request in flight
OnRejected(c, status, cred) ==
    IF ShouldRefresh(status, c.retry)
    THEN StartRefresh(c, cred)
    ELSE IF c.top = "orig"
         THEN [call |-> NoDone, cred |-> cred,
               out |-> Outcome(c, "fail", status, None)]
         ELSE GiveUp(c, cred)   \* refreshToken's catch returns null

\* refreshToken() after its await resolved with res.data.access_token = tok,
\* and the interceptor that awaited it: the request beneath is sent again
\* with the new token (its _retry marker is set)
OnRefreshed(c, tok, cred) ==
    IF tok = None
    THEN GiveUp(c, cred)
    ELSE IF c.depth = 0
         THEN [call |-> [c EXCEPT !.top = "orig", !.retry = TRUE,
                                  !.hdr = tok, !.nOrig = Bump(c.nOrig),
                                  !.tick = 1 - c.tick],
               cred |-> StoreRefreshed(cred, tok),
               out |-> [NoDone EXCEPT !.last = c.last]]
         ELSE [call |-> [c EXCEPT !.top = "refresh", !.retry = TRUE,
                                  !.depth = c.depth - 1,
                                  !.nRefresh = Bump(c.nRefresh),
                                  !.tick = 1 - c.tick],
               cred |-> StoreRefreshed(cred, tok),
               out |-> [NoDone EXCEPT !.last = c.last]]

\* the backend's answer to the request in flight of call c, through the
\* interceptor: the call goes on (call), or settles (out)
Respond(c, status, data, cred) ==
    LET answer == <<c.top, status, IF c.top = "refresh" THEN data ELSE None>>
        t == [c EXCEPT !.trace = Traced(c.trace, answer), !.last = answer]
    IN
    IF status # "ok"
    THEN OnRejected(t, status, cred)
    ELSE IF c.top = "orig"
         THEN [call |-> NoDone, cred |-> cred,
               out |-> Outcome(t, "ok", "ok", data)]
         ELSE OnRefreshed(t, data, cred)

(***************************************************************************)
(* Values of the chat page                                                 *)
(***************************************************************************)
\* A value held in the session list or in activeSessionId: null, a string
\* (a session id), or a session object {id, title?, createdAt}.  Objects are
\* compared by reference (===): an object is identified by its id, by where
\* it came from (org: the list response "l" or the create response "c"), and
\* by whether it is the copy {...s, title} made by the rename (ren).
Null == [rep |-> "null", id |-> 0, org |-> "-", ren |-> FALSE]
Str(id) == [rep |-> "str", id |-> id, org |-> "-", ren |-> FALSE]
Obj(id, org) == [rep |-> "obj", id |-> id, org |-> org, ren |-> FALSE]

\* `${v}` in a request path: a string stays, an object gives
\* "[object Object]" (0 here), which is the id of no session
UrlOf(v) == IF v.rep = "str" THEN v.id ELSE 0

FirstCreated == 3            \* the first id the backend assigns on create
ListShapes == {"str", "obj"} \* GET /chat/history lists ids, or objects
InList(shape, id) == IF shape = "str" THEN Str(id) ELSE Obj(id, "l")

NotArray == [array |-> FALSE, items |-> <<>>]
ArrayOf(items) == [array |-> TRUE, items |-> items]

IdLists == {<<>>, <<1>>, <<1, 2>>}   \* the ids a list response carries
ListResponses ==
    {ArrayOf([i \in DOMAIN l |-> InList(shape, l[i])]) :
        l \in IdLists, shape \in ListShapes} \cup {NotArray}

\* history records (user_message?, bot_message?, createdAt); None is absent
Now == 9   \* the client clock, later than every stored record
Rec1 == [user_message |-> "q1", bot_message |-> "a1", createdAt |-> 2]
Rec2 == [user_message |-> None, bot_message |-> "a2", createdAt |-> 1]
HistoryResponses == {ArrayOf(<<>>), ArrayOf(<<Rec1, Rec2>>), NotArray}

Inputs == {"", " ", "hi"}    \* what the user can have typed
Replies == {"re"}            \* res.data.reply
Trim(t) == IF t = " " THEN "" ELSE t   \* String.prototype.trim

\* a displayed message; sess is not a field of the program: it records the
\* session the entry belongs to (the one the history was requested for, or
\* the one the text was sent in)
Msg(text, from, createdAt, sess) ==
    [text |-> text, from |-> from, isTyping |-> FALSE,
     createdAt |-> createdAt, sess |-> sess]
Typing(sess) ==
    [text |-> "Typing...", from |-> "bot", isTyping |-> TRUE,
     createdAt |-> 0, sess |-> sess]

RECURSIVE FlatMap(_, _)
\* res.data.flatMap(item => [user entry if any, bot entry if any])
FlatMap(items, sess) ==
    IF items = <<>> THEN <<>>
    ELSE LET item == Head(items) IN
         (IF item.user_message # None
          THEN <<Msg(item.user_message, "user", item.createdAt, sess)>>
          ELSE <<>>)
         \o (IF item.bot_message # None
             THEN <<Msg(item.bot_message, "bot", item.createdAt, sess)>>
             ELSE <<>>)
         \o FlatMap(Tail(items), sess)

\* prev.filter((m) => !m.isTyping)
WithoutTyping(msgs) == SelectSeq(msgs, LAMBDA m : ~m.isTyping)

\* list.filter((s) => s !== sessionId)
WithoutSession(list, sessionId) == SelectSeq(list, LAMBDA x : x # sessionId)

(***************************************************************************)
(* The state as one record, so that the handlers are functions of it.      *)
(***************************************************************************)
St ==
    [view |-> view, sessions |-> sessions, active |-> activeSessionId,
     messages |-> messages, input |-> input, cred |-> Cred, calls |-> calls,
     created |-> created]

Becomes(st) ==
    /\ view' = st.view
    /\ sessions' = st.sessions
    /\ activeSessionId' = st.active
    /\ messages' = st.messages
    /\ input' = st.input
    /\ SetCred(st.cred)
    /\ calls' = st.calls
    /\ created' = st.created

\* api.get/post/delete: the request leaves with the default Authorization
\* header, or with the header the caller gives
Issue(st, kind, arg, hdr) ==
    [st EXCEPT !.calls = Append(@, NewCall(kind, arg, hdr))]

\* the GET /chat/history and the POST /user/refresh sent for the initial
\* load up to and including call x (a call, or its outcome): the session
\* list is requested by the calls "init" and "initRetry", a refresh by the
\* interceptor within any call and by the page's refreshToken() as the
\* request of the call "initRefresh"
LoadGets(x) ==
    x.sofar.gets + (IF x.kind \in {"init", "initRetry"} THEN x.nOrig ELSE 0)
LoadPosts(x) ==
    x.sofar.posts + x.nRefresh + (IF x.kind = "initRefresh" THEN x.nOrig ELSE 0)

\* the next request of the flow whose previous call settled with out
IssueAfter(st, out, kind, arg, hdr) ==
    [st EXCEPT !.calls = Append(@,
        [NewCall(kind, arg, hdr) EXCEPT
            !.sofar = [gets |-> LoadGets(out), posts |-> LoadPosts(out)]])]

Arg(sid, act, list, text) ==
    [sid |-> sid, act |-> act, list |-> list, text |-> text]
NoArg == Arg(Null, Null, <<>>, "")

\* the Chat component is mounted while its route is shown; React drops the
\* state updates of a component that is not
Mounted(st) == st.view = "chat"

\* navigate("/"): the login route is shown, Chat unmounts and its state is
\* gone with it
ToLogin(st) ==
    [st EXCEPT !.view = "login", !.sessions = <<>>, !.active = Null,
               !.messages = <<>>, !.input = ""]

\* the effect on [activeSessionId] (the fetchChat effect) up to its await:
\* it runs after the render in which the value changed
FetchChatEffect(st) ==
    IF st.active = Null THEN st
    ELSE Issue([st EXCEPT !.messages = <<>>],
               "fetch", Arg(st.active, Null, <<>>, ""), st.cred.hd)

\* setActiveSessionId(v), the render, and the effect when the value changed
SetActive(st, v) ==
    IF v = st.active THEN st
    ELSE FetchChatEffect([st EXCEPT !.active = v])

\* (a variant that takes a body that is not an array for an empty history)
FetchChatDoneAsEmpty(st, arg, data) ==
    IF ~Mounted(st) THEN st
    ELSE [st EXCEPT !.messages = FlatMap(data.items, arg.sid.id)]

\* fetchChat after its await resolved
FetchChatDone(st, arg, data) ==
    IF ~Mounted(st) \/ ~data.array THEN st
    ELSE LET history == FlatMap(data.items, arg.sid.id)
             rename == history # <<>> /\ history[1].from = "user"
             \* s.id === activeSessionId ? {...s, title} : s
             Renamed(x) == IF x.rep = "obj" /\ arg.sid.rep = "str"
                              /\ x.id = arg.sid.id
                           THEN [x EXCEPT !.ren = TRUE] ELSE x
         IN [st EXCEPT !.messages = history,
                       !.sessions = IF rename
                                    THEN [i \in DOMAIN @ |-> Renamed(@[i])]
                                    ELSE @]

\* initAuth and its retry, after a list response:
\* setSessions(data); setActiveSessionId(data[0])
SessionsLoaded(st, data) ==
    IF ~Mounted(st) \/ ~data.array THEN st
    ELSE LET s1 == [st EXCEPT !.sessions = data.items] IN
         IF data.items # <<>> THEN SetActive(s1, data.items[1]) ELSE s1

(***************************************************************************)
(* Chat.tsx: the handlers, each up to its await, and each after it         *)
(***************************************************************************)
\* the mount effect initAuth, up to its await
initAuth(st) ==
    IF st.cred.at = None
    THEN ToLogin(st)
    ELSE Issue([st EXCEPT !.view = "chat",
                          !.cred = setAuthToken(@, st.cred.at)],
               "init", NoArg, st.cred.at)

\* initAuth's own refreshToken() returned null: credentials removed, login
InitGiveUp(st) == ToLogin([st EXCEPT !.cred = DiscardCredentials(@)])

\* initAuth after GET /chat/history settled
InitDone(st, out) ==
    IF out.result = "ok" THEN SessionsLoaded(st, out.data)
    ELSE IF out.status = "401"
         THEN \* refreshToken() called by the page, up to its await
              IF st.cred.rt = None THEN InitGiveUp(st)
              ELSE IssueAfter(st, out, "initRefresh", NoArg, st.cred.hd)
         ELSE st

\* the page's refreshToken() after its await, then initAuth's retry
InitRefreshDone(st, out) ==
    IF out.result = "ok" /\ out.data # None
    THEN LET c1 == setAuthToken(StoreRefreshed(st.cred, out.data), out.data)
         IN IssueAfter([st EXCEPT !.cred = c1], out, "initRetry", NoArg,
                       c1.hd)
    ELSE InitGiveUp(st)

\* initAuth after the retried GET /chat/history settled
InitRetryDone(st, out) ==
    IF out.result = "ok" THEN SessionsLoaded(st, out.data) ELSE ToLogin(st)

\* createNewSession up to its await
createNewSession(st) == Issue(st, "create", NoArg, st.cred.at)

\* (a variant that adds the new session at the end of the list)
CreateDoneAtEnd(st, out) ==
    IF out.result # "ok" \/ ~Mounted(st) THEN st
    ELSE LET s1 == [st EXCEPT !.sessions = @ \o <<out.data>>]
             s2 == SetActive(s1, Str(out.data.id))
         IN [s2 EXCEPT !.messages = <<>>]

\* createNewSession after its await
CreateDone(st, out) ==
    IF out.result # "ok" \/ ~Mounted(st) THEN st
    ELSE LET s1 == [st EXCEPT !.sessions = <<out.data>> \o @]
             s2 == SetActive(s1, Str(out.data.id))
         IN [s2 EXCEPT !.messages = <<>>]

\* deleteSession(sessionId) up to its await, the confirm dialog accepted;
\* the closure keeps the activeSessionId and the sessions of its render
deleteSession(st, sessionId) ==
    Issue(st, "delete", Arg(sessionId, st.active, st.sessions, ""),
          st.cred.at)

\* deleteSession after its await
DeleteDone(st, out) ==
    IF out.result # "ok" \/ ~Mounted(st) THEN st
    ELSE LET sessionId == out.arg.sid
             s1 == [st EXCEPT !.sessions = WithoutSession(@, sessionId)]
             remainingSessions == WithoutSession(out.arg.list, sessionId)
         IN IF out.arg.act # sessionId THEN s1
            ELSE IF remainingSessions # <<>>
                 THEN SetActive(s1, remainingSessions[1])
                 ELSE [s1 EXCEPT !.active = Null, !.messages = <<>>]

\* sendMessage is a no-op unless this holds
CanSend(st) == Trim(st.input) # "" /\ st.active # Null

\* sendMessage up to its await
sendMessage(st) ==
    LET userMsg == Msg(st.input, "user", Now, st.active.id) IN
    Issue([st EXCEPT !.messages = @ \o <<userMsg, Typing(st.active.id)>>,
                     !.input = ""],
          "send", Arg(st.active, Null, <<>>, st.input), st.cred.hd)

\* (a variant whose catch removes the placeholder and reports nothing)
SendDoneSilent(st, out) ==
    IF ~Mounted(st) THEN st
    ELSE IF out.result = "ok"
         THEN [st EXCEPT !.messages = WithoutTyping(@)
                             \o <<Msg(out.data, "bot", Now, out.arg.sid.id)>>]
         ELSE [st EXCEPT !.messages = WithoutTyping(@)]

\* (a variant that appends the answer and leaves the placeholders)
SendDoneKeepTyping(st, out) ==
    IF ~Mounted(st) THEN st
    ELSE LET text == IF out.result = "ok" THEN out.data
                     ELSE "Error sending message"
         IN [st EXCEPT !.messages = @ \o <<Msg(text, "bot", Now,
                                                out.arg.sid.id)>>]

\* sendMessage after its await
SendDone(st, out) ==
    IF ~Mounted(st) THEN st
    ELSE LET text == IF out.result = "ok" THEN out.data
                     ELSE "Error sending message"
         IN [st EXCEPT !.messages = WithoutTyping(@)
                           \o <<Msg(text, "bot", Now, out.arg.sid.id)>>]

\* the onClick of a session item
ClickSession(st, s) ==
    IF s = st.active THEN st
    ELSE SetActive([st EXCEPT !.messages = <<>>], s)

\* handleLogout
handleLogout(st) ==
    ToLogin([st EXCEPT !.cred = setAuthToken(DiscardCredentials(@), None)])

(***************************************************************************)
(* Login.tsx                                                               *)
(***************************************************************************)
\* handleLogin up to its await, the e-mail address passing the pattern
handleLogin(st) == Issue(st, "login", NoArg, st.cred.hd)

\* handleLogin after its await: the token is stored and set as the header,
\* navigate("/chat") mounts Chat and its mount effect runs
LoginDone(st, out) ==
    IF out.result # "ok" \/ out.data = None \/ st.view # "login" THEN st
    ELSE initAuth([st EXCEPT
             !.cred = setAuthToken([@ EXCEPT !.at = out.data], out.data)])

\* the code after the await of the call that settled
Continue(st, out) ==
    CASE out.kind = "init" -> InitDone(st, out)
      [] out.kind = "login" -> LoginDone(st, out)
      [] out.kind = "initRefresh" -> InitRefreshDone(st, out)
      [] out.kind = "initRetry" -> InitRetryDone(st, out)
      [] out.kind = "fetch" ->
            IF out.result = "ok" THEN FetchChatDone(st, out.arg, out.data)
            ELSE st
      [] out.kind = "create" -> CreateDone(st, out)
      [] out.kind = "delete" -> DeleteDone(st, out)
      [] out.kind = "send" -> SendDone(st, out)
      [] OTHER -> st

(***************************************************************************)
(* The backend                                                             *)
(***************************************************************************)
\* what a 2xx response to the original request of a call can carry
DataFor(c) ==
    CASE c.kind \in {"init", "initRetry"} -> ListResponses
      [] c.kind \in {"initRefresh", "login"} -> Tokens \cup {None}
      [] c.kind = "fetch" -> HistoryResponses
      [] c.kind = "create" -> {Obj(FirstCreated + created, "c")}
      [] c.kind = "send" -> Replies
      [] OTHER -> {None}

\* the state after the backend's answer went through the interceptor and,
\* when the call settled, through the caller's continuation
Answered(i, status, data) ==
    LET c == calls[i]
        r == Respond(c, status, data, Cred)
        made == c.kind = "create" /\ c.top = "orig" /\ status = "ok"
        s1 == [St EXCEPT !.cred = r.cred,
                         !.calls = IF r.call.kind = None THEN RemoveAt(@, i)
                                   ELSE [@ EXCEPT ![i] = r.call],
                         !.created = IF made THEN @ + 1 ELSE @]
    IN IF r.out.kind = None THEN s1 ELSE Continue(s1, r.out)

Settled(i, status, data) ==
    Respond(calls[i], status, data, Cred).out

(***************************************************************************)
(* Actions                                                                 *)
(***************************************************************************)
Init ==
    /\ access_token \in {None, "t0"}
    /\ refresh_token \in RefreshTokens \cup {None}
    /\ authHeader = None
    /\ calls = <<>>
    /\ done = NoDone
    /\ view = "boot"
    /\ sessions = <<>>
    /\ activeSessionId = Null
    /\ messages = <<>>
    /\ input = ""
    /\ created = 0
    /\ faults = 0
    /\ ops = 0

\* the user's steps leave no settled call behind
User(st) == Becomes(st) /\ done' = NoDone /\ UNCHANGED faults

\* a step of the user that starts a request
Room == Len(calls) < MaxCalls /\ ops < MaxOps
Starts(st) == User(st) /\ ops' = ops + 1

\* /chat is loaded: Chat mounts and its mount effect runs
MountChat ==
    /\ view = "boot"
    /\ User(initAuth(St))
    /\ UNCHANGED ops

\* onChange of the input box
SetInput ==
    /\ view = "chat"
    /\ \E t \in Inputs : t # input /\ User([St EXCEPT !.input = t])
    /\ UNCHANGED ops

\* the send button or the Enter key
Send ==
    /\ view = "chat" /\ Room
    /\ CanSend(St)
    /\ Len(messages) + 2 <= MaxMsgs
    /\ Starts(sendMessage(St))

\* a click on a session item that is not the active one
Click ==
    /\ view = "chat" /\ Room
    /\ \E i \in DOMAIN sessions :
          /\ sessions[i] # activeSessionId
          /\ Starts(ClickSession(St, sessions[i]))

\* the "New chat" button
Create ==
    /\ view = "chat" /\ Room
    /\ created + Cardinality({i \in DOMAIN calls : calls[i].kind = "create"})
          < MaxCreates
    /\ Starts(createNewSession(St))

\* the delete button of a session item, confirmed
Delete ==
    /\ view = "chat" /\ Room
    /\ \E i \in DOMAIN sessions : Starts(deleteSession(St, sessions[i]))

\* the Logout button
Logout ==
    /\ view = "chat"
    /\ User(handleLogout(St))
    /\ UNCHANGED ops

\* the login form submitted with a well-formed e-mail address
Login ==
    /\ view = "login" /\ Room
    /\ Starts(handleLogin(St))

\* the step taken when the backend answers call i
Answer(i, status, data) ==
    /\ Becomes(Answered(i, status, data))
    /\ done' = [Settled(i, status, data) EXCEPT !.slot = i]
    /\ UNCHANGED ops

\* the chat page is run against a backend that fails MaxFaults times at most
Fault(status) ==
    /\ status # "ok" => faults < MaxFaults
    /\ faults' = IF status # "ok" THEN faults + 1 ELSE faults

RefreshData(status) == IF status = "ok" THEN Tokens \cup {None} ELSE {None}

\* the backend answers the original request of a call
AnswerRequest ==
    \E i \in DOMAIN calls :
        /\ calls[i].top = "orig"
        /\ \E status \in Statuses :
           \E data \in (IF status = "ok" THEN DataFor(calls[i]) ELSE {None}) :
              Fault(status) /\ Answer(i, status, data)

\* the backend answers a POST /user/refresh sent by the interceptor
AnswerRefresh ==
    \E i \in DOMAIN calls :
        /\ calls[i].top = "refresh"
        /\ \E status \in Statuses :
           \E tok \in RefreshData(status) :
                  Fault(status) /\ Answer(i, status, tok)

Next ==
    \/ MountChat
    \/ SetInput
    \/ Send
    \/ Click
    \/ Create
    \/ Delete
    \/ Logout
    \/ Login
    \/ AnswerRequest
    \/ AnswerRefresh

Spec == Init /\ [][Next]_vars

(***************************************************************************)
(* The API client on its own: any caller, and a backend that answers as    *)
(* it likes, as often as it likes.                                         *)
(***************************************************************************)
\* api.get / api.post / api.delete by some caller
Request ==
    /\ Len(calls) < MaxCalls
    /\ Becomes(Issue(St, "any", NoArg, authHeader))
    /\ done' = NoDone
    /\ UNCHANGED <<faults, ops>>

ApiAnswerRequestAt(i) ==
    /\ calls[i].top = "orig"
    /\ \E status \in Statuses :
          Answer(i, status, None) /\ UNCHANGED faults

ApiAnswerRefreshAt(i) ==
    /\ calls[i].top = "refresh"
    /\ \E status \in Statuses :
       \E tok \in RefreshData(status) :
          Answer(i, status, tok) /\ UNCHANGED faults

ApiAnswerRequest == \E i \in DOMAIN calls : ApiAnswerRequestAt(i)

ApiAnswerRefresh == \E i \in DOMAIN calls : ApiAnswerRefreshAt(i)

\* the backend answers the request in flight of the i-th outstanding call
ApiAnswer(i) ==
    /\ i \in DOMAIN calls
    /\ (ApiAnswerRequestAt(i) \/ ApiAnswerRefreshAt(i))

NextApi ==
    \/ Request
    \/ ApiAnswerRequest
    \/ ApiAnswerRefresh

SpecApi == Init /\ [][NextApi]_vars

\* the backend answers every request
FairSpecApi == SpecApi /\ \A i \in 1..MaxCalls : WF_vars(ApiAnswer(i))

(***************************************************************************)
(* The initial load of the chat page on its own, against a backend that    *)
(* answers as it likes.                                                    *)
(***************************************************************************)
LoadAnswerRequest ==
    \E i \in DOMAIN calls :
        /\ calls[i].top = "orig"
        /\ \E status \in Statuses :
           \E data \in (IF status = "ok" THEN DataFor(calls[i]) ELSE {None}) :
              Answer(i, status, data) /\ UNCHANGED faults

LoadAnswerRefresh ==
    \E i \in DOMAIN calls :
        /\ calls[i].top = "refresh"
        /\ \E status \in Statuses :
           \E tok \in RefreshData(status) :
              Answer(i, status, tok) /\ UNCHANGED faults

NextLoad ==
    \/ MountChat
    \/ LoadAnswerRequest
    \/ LoadAnswerRefresh

SpecLoad == Init /\ [][NextLoad]_vars

TypeOK ==
    /\ access_token \in Tokens \cup {None}
    /\ refresh_token \in RefreshTokens \cup {None}
    /\ authHeader \in Tokens \cup {None}
    /\ Len(calls) <= MaxCalls
    /\ view \in {"boot", "chat", "login"}
    /\ faults <= MaxFaults

(***************************************************************************)
(* Properties of the API client                                            *)
(***************************************************************************)
IsSettled == done.kind # None
Orig401 == <<"orig", "401", None>>
RefreshOk(tok) == <<"refresh", "ok", tok>>
OrigOk == <<"orig", "ok", None>>

\* C1: from the moment a call is issued to the moment its outcome reaches
\* the caller, at most one POST /user/refresh is sent for it, whatever the
\* backend answers.
C1_AtMostOneRefresh ==
    /\ \A i \in DOMAIN calls : calls[i].nRefresh <= 1
    /\ IsSettled => done.nRefresh <= 1

\* C2: when the backend answers every request, every call settles: the
\* oldest outstanding call always reaches its caller with a result or a
\* failure, whatever the answers are.
C2_EveryCallSettles ==
    [](calls # <<>> => <>(IsSettled /\ done.slot = 1))

\* C3: a call answered 401, whose refresh then returns a new token T and
\* whose retry then succeeds, settles with the retry's result after exactly
\* one refresh and two sends of the request, the retry carrying T; and at
\* the moment the refresh response is processed T is stored under
\* access_token, is the default Authorization header and is attached to the
\* request that is sent again.
C3_Outcome ==
    \A tok \in Tokens :
        (IsSettled /\ done.trace = <<Orig401, RefreshOk(tok), OrigOk>>)
            => /\ done.result = "ok"
               /\ done.nRefresh = 1
               /\ done.nOrig = 2
               /\ done.hdr = tok

C3_Stored ==
    \A tok \in Tokens :
        (~IsSettled /\ done.slot \in DOMAIN calls
           /\ calls[done.slot].trace = <<Orig401, RefreshOk(tok)>>)
            => /\ access_token = tok
               /\ authHeader = tok
               /\ calls[done.slot].top = "orig"
               /\ calls[done.slot].hdr = tok

C3_RefreshAndRetry == C3_Outcome /\ C3_Stored

C3_Witness ==
    IsSettled /\ done.trace = <<Orig401, RefreshOk("t1"), OrigOk>>

\* C4: when a call was answered 401 and the refresh path gave no token (no
\* refresh_token stored, the refresh request failed, or its response had no
\* token), then at the moment the failure reaches the caller access_token
\* and refresh_token are absent from localStorage, the failure is the 401,
\* and the original request was sent only once.
RefreshGaveNothing ==
    /\ IsSettled /\ done.result = "fail"
    /\ done.trace[1] = Orig401
    /\ \/ done.last[1] = "refresh"                  \* the refresh failed
       \/ Len(done.trace) = 1 /\ done.nRefresh = 0  \* none could be sent

C4_CredentialsDiscarded ==
    RefreshGaveNothing
        => /\ access_token = None
           /\ refresh_token = None
           /\ done.nOrig = 1
           /\ done.status = "401"

C4_Witness ==
    /\ RefreshGaveNothing
    /\ done.trace = <<Orig401, <<"refresh", "500", None>>>>

\* C5: a request answered with a network error or an HTTP error other than
\* 401 fails to its caller with that error in the same step, which sends no
\* request (no refresh, no retry) and leaves access_token, refresh_token and
\* the default Authorization header as they were.
C5_OtherErrorsPropagate ==
    [][(done'.last[1] = "orig" /\ done'.last[2] \in {"500", "net"})
        => /\ done'.kind # None
           /\ done'.result = "fail"
           /\ done'.status = done'.last[2]
           /\ calls' = RemoveAt(calls, done'.slot)
           /\ done'.nRefresh = calls[done'.slot].nRefresh
           /\ done'.nOrig = calls[done'.slot].nOrig
           /\ access_token' = access_token
           /\ refresh_token' = refresh_token
           /\ authHeader' = authHeader]_vars

C5_Witness ==
    /\ IsSettled /\ done.last = <<"orig", "net", None>>
    /\ refresh_token # None /\ access_token # None

(***************************************************************************)
(* Properties of the chat page                                             *)
(***************************************************************************)
\* the session a value of the list or of activeSessionId stands for
SessionOf(v) == v.id

\* the last step settled a call of this kind, issued by the page
SettledAs(kind, result) ==
    IsSettled /\ done.kind = kind /\ done.result = result

\* the request the step has just sent, if it sent one: the last call
Sent == calls'[Len(calls')]
SentOne(kind) ==
    /\ calls' # <<>>
    /\ Sent.kind = kind /\ Sent.trace = <<>> /\ Sent.top = "orig"
    /\ \/ calls' = Append(calls, Sent)
       \/ done'.slot \in DOMAIN calls
          /\ calls' = Append(RemoveAt(calls, done'.slot), Sent)

\* C6: every displayed message belongs to the session that is active.
C6_MessagesOfActiveSession ==
    \A i \in DOMAIN messages :
        /\ activeSessionId # Null
        /\ messages[i].sess = SessionOf(activeSessionId)

\* C7: when the active session becomes S, the message list is emptied in
\* the same step and exactly one GET /chat/history/<id of S> is sent; and
\* when an array response to a history fetch is processed, the message list
\* becomes the flattened records of that response.
C7_SwitchClearsAndFetches ==
    [][/\ (activeSessionId' # activeSessionId /\ activeSessionId' # Null)
            => /\ messages' = <<>>
               /\ SentOne("fetch")
               /\ Sent.arg.sid = activeSessionId'
               /\ UrlOf(Sent.arg.sid) = SessionOf(activeSessionId')
       /\ (view = "chat" /\ done'.kind = "fetch" /\ done'.result = "ok"
             /\ done'.data.array)
            => messages' =
                  FlatMap(done'.data.items, SessionOf(done'.arg.sid))
      ]_vars

\* C8: after a successful delete of the session that is active, that
\* session is not in the list, and the active session is the first of the
\* remaining list, or none (with an empty message list) when none remains.
C8_DeleteActiveFallsBack ==
    [][(view = "chat" /\ done'.kind = "delete" /\ done'.result = "ok"
          /\ activeSessionId # Null
          /\ SessionOf(activeSessionId) = SessionOf(done'.arg.sid))
        => /\ \A i \in DOMAIN sessions' :
                 SessionOf(sessions'[i]) # SessionOf(done'.arg.sid)
           /\ IF sessions' # <<>>
              THEN SessionOf(activeSessionId') = SessionOf(sessions'[1])
              ELSE activeSessionId' = Null /\ messages' = <<>>
      ]_vars

\* C9: when createNewSession's request succeeds, the session list is the
\* previous list with the returned session in front, the active session is
\* the id of that session and the message list is empty; when the request
\* fails, session list, active session and message list stay as they were.
C9_CreatePrepends ==
    [][/\ (view = "chat" /\ done'.kind = "create" /\ done'.result = "ok")
            => /\ sessions' = <<done'.data>> \o sessions
               /\ activeSessionId' = Str(done'.data.id)
               /\ messages' = <<>>
       /\ (view = "chat" /\ done'.kind = "create" /\ done'.result = "fail")
            => UNCHANGED <<sessions, activeSessionId, messages>>
      ]_vars

C9_Witness ==
    /\ SettledAs("create", "ok")
    /\ Len(sessions) = 3
    /\ sessions[1] = Obj(FirstCreated, "c")
    /\ activeSessionId = Str(FirstCreated)

\* C10: a send with non-blank input and an active session appends the
\* user's message and one typing placeholder, empties the input and sends
\* one POST /chat with the typed text and the id of the active session; the
\* reply removes the placeholder and appends the bot's message at the end.
C10_SendFlow ==
    [][/\ (calls' # <<>> /\ Sent.kind = "send" /\ Sent.trace = <<>>
             /\ calls' = Append(calls, Sent))
            => /\ Trim(input) # "" /\ activeSessionId # Null
               /\ Len(messages') = Len(messages) + 2
               /\ SubSeq(messages', 1, Len(messages)) = messages
               /\ messages'[Len(messages) + 1].text = input
               /\ messages'[Len(messages) + 1].from = "user"
               /\ messages'[Len(messages) + 2].isTyping
               /\ input' = ""
               /\ Sent.arg.text = input
               /\ Sent.arg.sid = Str(SessionOf(activeSessionId))
       /\ (view = "chat" /\ done'.kind = "send" /\ done'.result = "ok")
            => /\ messages' # <<>>
               /\ messages'[Len(messages')].text = done'.data
               /\ messages'[Len(messages')].from = "bot"
               /\ \A i \in DOMAIN messages' : ~messages'[i].isTyping
               /\ SubSeq(messages', 1, Len(messages') - 1)
                     = WithoutTyping(messages)
      ]_vars

\* the typing placeholders displayed, and the sends not yet settled
NumTyping == Cardinality({i \in DOMAIN messages : messages[i].isTyping})
NumSends == Cardinality({i \in DOMAIN calls : calls[i].kind = "send"})

\* C11: when the POST /chat of a send fails, the list after the failure is
\* the list before it without typing placeholder, every other entry kept in
\* its order, followed by one bot message 'Error sending message'; and the
\* step sends no request (the message is not sent again).
C11_SendFailure ==
    [][(view = "chat" /\ done'.kind = "send" /\ done'.result = "fail")
        => /\ messages' # <<>>
           /\ messages'[Len(messages')].text = "Error sending message"
           /\ messages'[Len(messages')].from = "bot"
           /\ \A i \in DOMAIN messages' : ~messages'[i].isTyping
           /\ SubSeq(messages', 1, Len(messages') - 1)
                 = WithoutTyping(messages)
           /\ calls' = RemoveAt(calls, done'.slot)
      ]_vars

C11_Witness ==
    /\ SettledAs("send", "fail")
    /\ Len(messages) = 5
    /\ messages[3].text = "a2"
    /\ messages[4].text = "hi" /\ messages[4].from = "user"
    /\ messages[5].text = "Error sending message"

\* C12: in every reachable state the number of typing placeholders in the
\* displayed list is at most the number of sends still outstanding.
C12_TypingPerOutstandingSend == NumTyping <= NumSends

C12_Witness == NumTyping = 2 /\ NumSends = 2

\* C13: when the reply R of a send of M is processed while the session the
\* message was sent in is active, the list ends with the user entry M
\* followed by the bot entry R.
C13_RoundTrip ==
    [][(view = "chat" /\ done'.kind = "send" /\ done'.result = "ok"
          /\ activeSessionId = done'.arg.sid)
        => /\ Len(messages') >= 2
           /\ messages'[Len(messages')].text = done'.data
           /\ messages'[Len(messages')].from = "bot"
           /\ messages'[Len(messages') - 1].text = done'.arg.text
           /\ messages'[Len(messages') - 1].from = "user"
      ]_vars

\* ascending createdAt
Ascending(msgs) ==
    \A i, j \in DOMAIN msgs : i < j => msgs[i].createdAt <= msgs[j].createdAt

\* sorted is msgs in ascending createdAt, entries with equal createdAt in
\* the order they have in msgs
StableSorted(sorted, msgs) ==
    /\ Len(sorted) = Len(msgs)
    /\ Ascending(sorted)
    /\ \E p \in [DOMAIN msgs -> DOMAIN msgs] :
          /\ \A i, j \in DOMAIN msgs : i # j => p[i] # p[j]
          /\ \A i \in DOMAIN msgs : sorted[i] = msgs[p[i]]
          /\ \A i, j \in DOMAIN msgs :
                (i < j /\ sorted[i].createdAt = sorted[j].createdAt)
                    => p[i] < p[j]

\* C14: the message list installed from a history response is the
\* flattened records of the response in ascending createdAt, entries with
\* equal createdAt in the order of the response.
C14_HistorySorted ==
    [][(view = "chat" /\ done'.kind = "fetch" /\ done'.result = "ok"
          /\ done'.data.array)
        => StableSorted(messages',
                        FlatMap(done'.data.items, SessionOf(done'.arg.sid)))
      ]_vars

\* the credentials are absent: neither key is stored, no default header
NoCredentials ==
    access_token = None /\ refresh_token = None /\ authHeader = None

\* this step is handleLogout, and this one the success of a login
LogoutStep == view = "chat" /\ view' = "login" /\ done' = NoDone
LoginSuccess ==
    done'.kind = "login" /\ done'.result = "ok" /\ done'.data # None

\* C15: logout leaves access_token and refresh_token absent and the default
\* header unset, and while the login view is shown they stay so in every
\* step but a successful login, whatever response is processed.
C15_LogoutDestroysCredentials ==
    [][/\ LogoutStep => NoCredentials'
       /\ (view = "login" /\ NoCredentials /\ ~LoginSuccess)
            => NoCredentials'
      ]_vars

\* C16: after a successful login access_token is the token of the response
\* and the default Authorization header, and a refresh_token is stored.
C16_LoginStoresPair ==
    [][(view = "login" /\ LoginSuccess)
        => /\ access_token' = done'.data
           /\ authHeader' = done'.data
           /\ refresh_token' # None
      ]_vars

\* C17: a 2xx response to a history fetch or to the session-list load
\* whose body is not an array changes nothing: session list, active session,
\* message list, input and view stay as they were, and no request is sent.
C17_NonArrayIgnored ==
    [][(view = "chat" /\ done'.kind \in {"fetch", "init", "initRetry"}
          /\ done'.result = "ok" /\ ~done'.data.array)
        => /\ UNCHANGED <<sessions, activeSessionId, messages, input, view>>
           /\ calls' = RemoveAt(calls, done'.slot)
      ]_vars

C17_Witness ==
    /\ SettledAs("fetch", "ok") /\ ~done.data.array
    /\ view = "chat" /\ activeSessionId # Null
    /\ Len(messages) = 2 /\ messages[2].isTyping

\* the calls of the initial load of the chat page
LoadKinds == {"init", "initRefresh", "initRetry"}
WithinOneRefreshOneRetry(x) == LoadPosts(x) <= 1 /\ LoadGets(x) <= 2

\* C18: over the initial load, the interceptor and the page's own 401
\* handling counted together, at most one POST /user/refresh and at most
\* two GET /chat/history are sent; and when the load has ended with a 401
\* failure the login view is shown.
C18_LoadOneRefreshOneRetry ==
    /\ \A i \in DOMAIN calls :
          calls[i].kind \in LoadKinds => WithinOneRefreshOneRetry(calls[i])
    /\ (IsSettled /\ done.kind \in LoadKinds)
          => WithinOneRefreshOneRetry(done)
    /\ (/\ IsSettled /\ done.kind \in LoadKinds
        /\ done.result = "fail" /\ done.status = "401"
        /\ \A i \in DOMAIN calls : calls[i].kind \notin LoadKinds)
          => view = "login"

\* C19: a successful delete of a session that is not the active one when
\* its response is processed leaves the active session as it is.
C19_DeleteOtherKeepsActive ==
    [][(view = "chat" /\ done'.kind = "delete" /\ done'.result = "ok"
          /\ SessionOf(activeSessionId) # SessionOf(done'.arg.sid))
        => activeSessionId' = activeSessionId
      ]_vars

\* the entries of the session list that stand for session id
Listed(id) == {i \in DOMAIN sessions : SessionOf(sessions[i]) = id}

\* C20: while the chat page is shown the active-session value is none, or
\* it is a session id (a string, whichever operation set it) and exactly
\* one entry of the session list is the session with that id.
C20_ActiveIsListedId ==
    (view = "chat" /\ activeSessionId # Null)
        => /\ activeSessionId.rep = "str"
           /\ Cardinality(Listed(activeSessionId.id)) = 1

\* a refresh or a login is in progress: a POST /user/refresh of the
\* interceptor or of the page, or a POST /user/login, is not yet settled
RefreshOrLoginInProgress ==
    \E i \in DOMAIN calls :
        calls[i].top = "refresh" \/ calls[i].kind \in {"initRefresh", "login"}

\* C21: once the application has started, whenever no refresh and no login
\* is in progress the default Authorization header carries the token
\* stored under access_token, and is unset when none is stored.
C21_HeaderAgreesWithStorage ==
    (view # "boot" /\ ~RefreshOrLoginInProgress)
        => authHeader = access_token

====
